---- MODULE Spec2Model ----
(***************************************************************************)
(* Model of cross.py (mobile-wormhole): the IntentHandler single-slot      *)
(* buffer (data, error), its Android intent callbacks and pop, and the     *)
(* ensure_storage_perms decorator.                                         *)
(*                                                                         *)
(* Spec      : callbacks and pop run one after another (whole handlers).   *)
(* SpecConc  : pop and the intent callback interleave at the granularity   *)
(*             of single reads and writes of self.data / self.error.       *)
(* SpecPerms : calls of a function wrapped by ensure_storage_perms.        *)
(***************************************************************************)
EXTENDS Naturals, Sequences, FiniteSets

VARIABLES
    PLATFORM,       \* kivy.utils.platform
    ctor,           \* position inside IntentHandler.__init__
    intent_hander,  \* the instance's fields: [data, error]
    bound,          \* number of android.activity.bind(on_new_intent=...) calls
    launched,       \* number of launch intents handed to handle_android_intent
    lastOp,         \* the last completed operation on the handler (observation)
    prevOp,         \* after a pop: the completed operation before it
    pending,        \* outcome of the last single-send event since the last pop
    cb,             \* the running intent callback: [pc, intent, uri]
    pp,             \* the running pop: [pc, error, data]
    popResult,      \* result of the last completed pop
    unread,         \* [data, error]: a callback stored it and no pop read it yet
    erased,         \* the outcome a pop cleared without having read it
    calls           \* the calls of a function wrapped by ensure_storage_perms

vars == <<PLATFORM, ctor, intent_hander, bound, launched, lastOp, prevOp, pending,
          cb, pp, popResult, unread, erased, calls>>

seqVars == <<lastOp, prevOp, pending>>
concVars == <<cb, pp, popResult, erased>>
permVars == <<calls>>

----------------------------------------------------------------------------
(* Bounds *)

MaxClipItems == 2
MaxCalls == 3

----------------------------------------------------------------------------
(* Values *)

\* Python's None; every field and path is a string, so None is one too.
None == "<None>"

\* No call was made / nothing was raised.
NotCalled == "<not called>"
NoExc == "<no exception>"

ACTION_SEND == "android.intent.action.SEND"
ACTION_SEND_MULTIPLE == "android.intent.action.SEND_MULTIPLE"
ACTION_MAIN == "android.intent.action.MAIN"

Actions == {ACTION_SEND, ACTION_SEND_MULTIPLE, ACTION_MAIN}

Uris == {"content://a", "content://b"}

Paths == {"/tmp/photo.jpg", "/tmp/notes.txt"}

\* ClipData: null, or a list of items, each with a Uri.
ClipLists == UNION {[1..n -> Uris] : n \in 0..MaxClipItems}

\* An android.content.Intent as the handler reads it: getAction, getData,
\* getClipData (hasClip = FALSE is a null ClipData).
Intents ==
    [action : Actions, data : Uris \cup {None}, hasClip : {TRUE},  clip : ClipLists]
    \cup
    [action : Actions, data : Uris \cup {None}, hasClip : {FALSE}, clip : {<<>>}]

\* What AndroidUriResolver.resolve can do: return a path, return None, or raise.
\* AttributeError and AssertionError are the classes the handler catches.
CaughtExceptions_AnyException == {"AttributeError", "AssertionError", "OSError"}

CaughtExceptions == {"AttributeError", "AssertionError"}

ResolveOutcomes ==
    [kind : {"return"}, val : Paths \cup {None}]
    \cup
    [kind : {"raise"}, val : CaughtExceptions \cup {"OSError"}]

\* Python truthiness of a field value.
Truthy(x) == x \notin {None, ""}

\* str(x)
str(x) == IF x = None THEN "None" ELSE x

\* The message stored at lines 168-172 (three adjacent literals).
ErrorMessage ==
    "Your share target cannot be recognised as a file. If it is indeed one, please try selecting it via the file chooser instead."

----------------------------------------------------------------------------
(* IntentHandler: the field accesses of handle_intent_action_send and pop *)

\* __init__, lines 139-140
Empty == [data |-> None, error |-> None]

SendClearData_Skipped(s) == s

\* line 152: self.data = None
SendClearData(s) == [s EXCEPT !.data = None]

SendClearError_Skipped(s) == s

\* line 153: self.error = None
SendClearError(s) == [s EXCEPT !.error = None]

ExtractUri_LastItem(intent) ==
    IF intent.data # None
    THEN [exc |-> NoExc, uri |-> intent.data, clip |-> FALSE]
    ELSE IF ~intent.hasClip
    THEN [exc |-> "AssertionError", uri |-> None, clip |-> TRUE]
    ELSE IF Len(intent.clip) = 0
    THEN [exc |-> "AssertionError", uri |-> None, clip |-> TRUE]
    ELSE [exc |-> NoExc, uri |-> intent.clip[Len(intent.clip)], clip |-> TRUE]

\* lines 155-164: the reference of the intent, or the exception raised on the
\* way; clip tells whether getClipData was called.
ExtractUri(intent) ==
    IF intent.data # None
    THEN [exc |-> NoExc, uri |-> intent.data, clip |-> FALSE]
    ELSE IF ~intent.hasClip
    THEN [exc |-> "AssertionError", uri |-> None, clip |-> TRUE]
    ELSE IF Len(intent.clip) = 0
    THEN [exc |-> "AssertionError", uri |-> None, clip |-> TRUE]
    ELSE [exc |-> NoExc, uri |-> intent.clip[1], clip |-> TRUE]

\* line 166: self.data = <value returned by resolve>
SendStoreData(s, path) == [s EXCEPT !.data = path]

\* lines 167-172: self.error = '...'
SendStoreError(s) == [s EXCEPT !.error = ErrorMessage]

\* line 193: if self.error
PopTestError(s) == Truthy(s.error)

\* line 194: error = str(self.error)
PopReadError(s) == str(s.error)

PopClearError_Skipped(s) == s

\* line 195: self.error = None
PopClearError(s) == [s EXCEPT !.error = None]

\* line 198: data = self.data
PopReadData(s) == s.data

PopClearData_Skipped(s) == s

\* line 199: self.data = None
PopClearData(s) == [s EXCEPT !.data = None]

----------------------------------------------------------------------------
(* IntentHandler: whole handlers.  Each yields the fields afterwards (self), *)
(* the argument resolve was called with (arg), what resolve did (res), the    *)
(* exception that left the handler (raised) and whether the clip payload was *)
(* consulted (clip).                                                         *)

handle_intent_action_send_multiple_Clears(s, intent) ==
    [self |-> Empty, arg |-> NotCalled, res |-> NotCalled, raised |-> NoExc,
     clip |-> FALSE]

\* lines 148-149: pass
handle_intent_action_send_multiple(s, intent) ==
    [self |-> s, arg |-> NotCalled, res |-> NotCalled, raised |-> NoExc,
     clip |-> FALSE]

\* lines 151-172
handle_intent_action_send(s, intent, res) ==
    LET s2 == SendClearError(SendClearData(s))
        ext == ExtractUri(intent)
    IN  IF ext.exc \in CaughtExceptions
        THEN [self |-> SendStoreError(s2), arg |-> NotCalled, res |-> NotCalled,
              raised |-> NoExc, clip |-> ext.clip]
        ELSE IF res.kind = "return"
        THEN [self |-> SendStoreData(s2, res.val), arg |-> ext.uri, res |-> res.val,
              raised |-> NoExc, clip |-> ext.clip]
        ELSE IF res.val \in CaughtExceptions
        THEN [self |-> SendStoreError(s2), arg |-> ext.uri, res |-> res.val,
              raised |-> NoExc, clip |-> ext.clip]
        ELSE [self |-> s2, arg |-> ext.uri, res |-> res.val, raised |-> res.val,
              clip |-> ext.clip]

\* lines 176-186
handle_android_intent(s, intent, res) ==
    IF intent.action = ACTION_SEND
    THEN handle_intent_action_send(s, intent, res)
    ELSE IF intent.action = ACTION_SEND_MULTIPLE
    THEN handle_intent_action_send_multiple(s, intent)
    ELSE [self |-> s, arg |-> NotCalled, res |-> NotCalled, raised |-> NoExc,
          clip |-> FALSE]

\* The result of a pop: a returned value (None is absence) or a raised ValueError
\* with its text.
Return(v) == [kind |-> "return", val |-> v]
RaiseValueError(text) == [kind |-> "raise", val |-> text]
NoResult == [kind |-> "none", val |-> None]

\* lines 188-200
pop(s) ==
    IF PopTestError(s)
    THEN [self |-> PopClearError(s), result |-> RaiseValueError(PopReadError(s))]
    ELSE [self |-> PopClearData(s), result |-> Return(PopReadData(s))]

----------------------------------------------------------------------------
(* Observations: what an operation on the handler was and did *)

\* How the event presents its reference: a direct data reference, a non-null
\* clip payload with at least one item, or neither.
Shape(intent) ==
    IF intent.data # None THEN "direct"
    ELSE IF intent.hasClip /\ Len(intent.clip) >= 1 THEN "clip"
    ELSE "neither"

\* The reference the event presents: the direct one, else the first clip item's.
Reference(intent) ==
    IF intent.data # None THEN intent.data
    ELSE IF intent.hasClip /\ Len(intent.clip) >= 1 THEN intent.clip[1]
    ELSE None

NoOp ==
    [op |-> "none", live |-> FALSE, action |-> None, shape |-> None, ref |-> None,
     pre |-> Empty, arg |-> NotCalled, res |-> NotCalled, raised |-> NoExc,
     clip |-> FALSE, alone |-> NoResult, pend |-> NoResult, result |-> NoResult]

\* An event handed to handle_android_intent: h is what the handler yielded, and
\* alone is what a pop yields after the same event on an Empty buffer.
EventOp(live, pre, intent, res, h) ==
    [op |-> "event", live |-> live, action |-> intent.action, shape |-> Shape(intent),
     ref |-> Reference(intent), pre |-> pre, arg |-> h.arg, res |-> h.res,
     raised |-> h.raised, clip |-> h.clip,
     alone |-> pop(handle_android_intent(Empty, intent, res).self).result,
     pend |-> NoResult, result |-> NoResult]

\* A pop: the fields before it, what was pending for it and its result; the
\* other fields stay those of the latest event.
PopOp(pre, r) ==
    [lastOp EXCEPT !.op = "pop", !.pre = pre, !.pend = pending, !.result = r.result]

\* A call of the wrapped function that has not been made yet: how far it is
\* (st), how often func and fallback_func ran for it, what the permission
\* request answered and what the callback raised.
NewCall ==
    [st |-> "new", func |-> 0, fallback |-> 0, grant |-> None, raised |-> NoExc]

----------------------------------------------------------------------------
(* The state before IntentHandler() is called at line 203 *)

Init ==
    /\ PLATFORM \in {"android", "linux"}
    /\ ctor = "start"
    /\ intent_hander = Empty
    /\ bound = 0
    /\ launched = 0
    /\ lastOp = NoOp
    /\ prevOp = NoOp
    /\ pending = Return(None)
    /\ cb = [pc |-> "idle", intent |-> None, uri |-> None]
    /\ pp = [pc |-> "idle", error |-> None, data |-> None]
    /\ popResult = NoResult
    /\ unread = [data |-> FALSE, error |-> FALSE]
    /\ erased = None
    /\ calls = [i \in 1..MaxCalls |-> NewCall]

----------------------------------------------------------------------------
(* Spec: whole handlers, one after another *)

\* The bookkeeping of a completed event: a single-send event replaces what is
\* pending for the next pop by its own outcome, any other event leaves it.
ObserveEvent(op) ==
    /\ prevOp' = NoOp
    /\ lastOp' = op
    /\ pending' = IF op.action = ACTION_SEND THEN op.alone ELSE pending

\* The bookkeeping of a completed pop.
ObservePop(op) ==
    /\ prevOp' = lastOp
    /\ lastOp' = op
    /\ pending' = Return(None)

\* What a callback has stored in each field for a pop to read.
Stored(s) == [data |-> s.data # None, error |-> s.error # None]

init_NoPlatformCheck(intent, res) ==
    /\ ctor = "start"
    /\ LET h == handle_android_intent(Empty, intent, res)
       IN  /\ intent_hander' = h.self
           /\ launched' = launched + 1
           /\ ctor' = IF h.raised = NoExc THEN "bind" ELSE "failed"
    /\ unread' = Stored(intent_hander')
    /\ UNCHANGED <<PLATFORM, bound>>

\* __init__, lines 139-144: the fields, and on android the launch intent
\* (mActivity.getIntent()).  An exception leaving handle_android_intent leaves
\* __init__ too, before line 145.
init(intent, res) ==
    /\ ctor = "start"
    /\ IF PLATFORM = "android"
       THEN LET h == handle_android_intent(Empty, intent, res)
            IN  /\ intent_hander' = h.self
                /\ launched' = launched + 1
                /\ ctor' = IF h.raised = NoExc THEN "bind" ELSE "failed"
       ELSE /\ intent_hander' = Empty
            /\ ctor' = "done"
            /\ UNCHANGED launched
    /\ unread' = Stored(intent_hander')
    /\ UNCHANGED <<PLATFORM, bound>>

\* IntentHandler() at line 203, up to line 144.
Construct(intent, res) ==
    /\ init(intent, res)
    /\ IF PLATFORM = "android"
       THEN ObserveEvent(EventOp(FALSE, Empty, intent, res,
                                 handle_android_intent(Empty, intent, res)))
       ELSE UNCHANGED seqVars
    /\ UNCHANGED concVars
    /\ UNCHANGED permVars

\* __init__, line 145: android.activity.bind(on_new_intent=self.handle_android_intent)
Bind ==
    /\ ctor = "bind"
    /\ bound' = bound + 1
    /\ ctor' = "done"
    /\ UNCHANGED <<PLATFORM, intent_hander, launched, unread>>
    /\ UNCHANGED seqVars
    /\ UNCHANGED concVars
    /\ UNCHANGED permVars

\* The platform delivers a new intent to the bound listener.
NewIntent(intent, res) ==
    /\ ctor = "done"
    /\ bound > 0
    /\ LET h == handle_android_intent(intent_hander, intent, res)
       IN  /\ intent_hander' = h.self
           /\ ObserveEvent(EventOp(TRUE, intent_hander, intent, res, h))
    /\ unread' = Stored(intent_hander')
    /\ UNCHANGED <<PLATFORM, ctor, bound, launched>>
    /\ UNCHANGED concVars
    /\ UNCHANGED permVars

\* The application calls intent_hander.pop().
Pop ==
    /\ ctor = "done"
    /\ LET r == pop(intent_hander)
       IN  /\ intent_hander' = r.self
           /\ ObservePop(PopOp(intent_hander, r))
    /\ unread' = Stored(intent_hander')
    /\ UNCHANGED <<PLATFORM, ctor, bound, launched>>
    /\ UNCHANGED concVars
    /\ UNCHANGED permVars

Next ==
    \/ \E intent \in Intents, res \in ResolveOutcomes : Construct(intent, res)
    \/ Bind
    \/ \E intent \in Intents, res \in ResolveOutcomes : NewIntent(intent, res)
    \/ Pop

Spec == Init /\ [][Next]_vars

----------------------------------------------------------------------------
(* SpecConc: pop and one intent callback at a time, interleaved at the      *)
(* granularity of the single reads and writes of self.data and self.error.  *)
(* The callback runs on the thread the platform delivers new intents on,    *)
(* pop on the application's thread; nothing synchronises them.              *)

CbIdle == [pc |-> "idle", intent |-> None, uri |-> None]
PopIdle == [pc |-> "idle", error |-> None, data |-> None]

\* IntentHandler() at line 203, up to line 144, before any other thread can
\* reach the instance.
ConcConstruct(intent, res) ==
    /\ init(intent, res)
    /\ UNCHANGED seqVars
    /\ UNCHANGED concVars
    /\ UNCHANGED permVars

\* lines 180-186: the platform delivers a new intent; a single-send intent
\* enters handle_intent_action_send, any other returns at once.
CbDispatch(intent) ==
    /\ ctor = "done"
    /\ bound > 0
    /\ cb.pc = "idle"
    /\ cb' = IF intent.action = ACTION_SEND
             THEN [pc |-> "152", intent |-> intent, uri |-> None]
             ELSE CbIdle
    /\ UNCHANGED <<PLATFORM, ctor, intent_hander, bound, launched, unread,
                   pp, popResult, erased>>
    /\ UNCHANGED seqVars
    /\ UNCHANGED permVars

\* line 152
Cb152 ==
    /\ cb.pc = "152"
    /\ intent_hander' = SendClearData(intent_hander)
    /\ unread' = [unread EXCEPT !.data = intent_hander'.data # None]
    /\ cb' = [cb EXCEPT !.pc = "153"]
    /\ UNCHANGED <<PLATFORM, ctor, bound, launched, pp, popResult, erased>>
    /\ UNCHANGED seqVars
    /\ UNCHANGED permVars

\* line 153
Cb153 ==
    /\ cb.pc = "153"
    /\ intent_hander' = SendClearError(intent_hander)
    /\ unread' = [unread EXCEPT !.error = intent_hander'.error # None]
    /\ cb' = [cb EXCEPT !.pc = "155"]
    /\ UNCHANGED <<PLATFORM, ctor, bound, launched, pp, popResult, erased>>
    /\ UNCHANGED seqVars
    /\ UNCHANGED permVars

\* lines 155-164: the reference, or a caught exception and on to line 167
Cb155 ==
    /\ cb.pc = "155"
    /\ LET ext == ExtractUri(cb.intent)
       IN  cb' = IF ext.exc \in CaughtExceptions
                 THEN [pc |-> "168", intent |-> None, uri |-> None]
                 ELSE [pc |-> "166", intent |-> None, uri |-> ext.uri]
    /\ UNCHANGED <<PLATFORM, ctor, intent_hander, bound, launched, unread,
                   pp, popResult, erased>>
    /\ UNCHANGED seqVars
    /\ UNCHANGED permVars

\* line 166: resolve returns and its value is stored, or it raises: a caught
\* class goes on to line 167, any other leaves the callback.
Cb166(res) ==
    /\ cb.pc = "166"
    /\ IF res.kind = "return"
       THEN /\ intent_hander' = SendStoreData(intent_hander, res.val)
            /\ unread' = [unread EXCEPT !.data = intent_hander'.data # None]
            /\ cb' = CbIdle
       ELSE /\ cb' = IF res.val \in CaughtExceptions
                     THEN [cb EXCEPT !.pc = "168", !.uri = None]
                     ELSE CbIdle
            /\ UNCHANGED <<intent_hander, unread>>
    /\ UNCHANGED <<PLATFORM, ctor, bound, launched, pp, popResult, erased>>
    /\ UNCHANGED seqVars
    /\ UNCHANGED permVars

\* lines 167-172
Cb168 ==
    /\ cb.pc = "168"
    /\ intent_hander' = SendStoreError(intent_hander)
    /\ unread' = [unread EXCEPT !.error = intent_hander'.error # None]
    /\ cb' = CbIdle
    /\ UNCHANGED <<PLATFORM, ctor, bound, launched, pp, popResult, erased>>
    /\ UNCHANGED seqVars
    /\ UNCHANGED permVars

\* line 193: pop is called and tests self.error
Pop193 ==
    /\ ctor = "done"
    /\ pp.pc = "idle"
    /\ pp' = [PopIdle EXCEPT !.pc = IF PopTestError(intent_hander) THEN "194" ELSE "198"]
    /\ UNCHANGED <<PLATFORM, ctor, intent_hander, bound, launched, unread,
                   cb, popResult, erased>>
    /\ UNCHANGED seqVars
    /\ UNCHANGED permVars

\* line 194
Pop194 ==
    /\ pp.pc = "194"
    /\ pp' = [pp EXCEPT !.pc = "195", !.error = PopReadError(intent_hander)]
    /\ unread' = [unread EXCEPT !.error = FALSE]
    /\ UNCHANGED <<PLATFORM, ctor, intent_hander, bound, launched, cb, popResult, erased>>
    /\ UNCHANGED seqVars
    /\ UNCHANGED permVars

\* lines 195-196: the field is cleared and the text read at line 194 is raised
Pop195 ==
    /\ pp.pc = "195"
    /\ erased' = IF unread.error THEN intent_hander.error ELSE erased
    /\ intent_hander' = PopClearError(intent_hander)
    /\ unread' = [unread EXCEPT !.error = intent_hander'.error # None /\ unread.error]
    /\ popResult' = RaiseValueError(pp.error)
    /\ pp' = PopIdle
    /\ UNCHANGED <<PLATFORM, ctor, bound, launched, cb>>
    /\ UNCHANGED seqVars
    /\ UNCHANGED permVars

\* line 198
Pop198 ==
    /\ pp.pc = "198"
    /\ pp' = [pp EXCEPT !.pc = "199", !.data = PopReadData(intent_hander)]
    /\ unread' = [unread EXCEPT !.data = FALSE]
    /\ UNCHANGED <<PLATFORM, ctor, intent_hander, bound, launched, cb, popResult, erased>>
    /\ UNCHANGED seqVars
    /\ UNCHANGED permVars

\* lines 199-200: the field is cleared and the value read at line 198 is returned
Pop199 ==
    /\ pp.pc = "199"
    /\ erased' = IF unread.data THEN intent_hander.data ELSE erased
    /\ intent_hander' = PopClearData(intent_hander)
    /\ unread' = [unread EXCEPT !.data = intent_hander'.data # None /\ unread.data]
    /\ popResult' = Return(pp.data)
    /\ pp' = PopIdle
    /\ UNCHANGED <<PLATFORM, ctor, bound, launched, cb>>
    /\ UNCHANGED seqVars
    /\ UNCHANGED permVars

NextConc ==
    \/ \E intent \in Intents, res \in ResolveOutcomes : ConcConstruct(intent, res)
    \/ Bind
    \/ \E intent \in Intents : CbDispatch(intent)
    \/ Cb152
    \/ Cb153
    \/ Cb155
    \/ \E res \in ResolveOutcomes : Cb166(res)
    \/ Cb168
    \/ Pop193
    \/ Pop194
    \/ Pop195
    \/ Pop198
    \/ Pop199

SpecConc == Init /\ [][NextConc]_vars

----------------------------------------------------------------------------
(* Claims about whole handlers (Spec) *)

\* The fixed user-facing error text.
FixedErrorText ==
    "Your share target cannot be recognised as a file. If it is indeed one, please try selecting it via the file chooser instead."

Ready(s) == s.data # None /\ s.error = None
Failed(s) == s.error # None /\ s.data = None

\* C1 as stated: after events with no pop in between, the next pop yields the
\* outcome of the last event alone, whatever the kind of that event.
C1_LastEventWins ==
    (lastOp.op = "pop" /\ prevOp.op = "event") => lastOp.result = prevOp.alone

\* C1, amended: after events with no pop in between, the next pop yields the
\* outcome of the last single-send event among them alone (absence when none of
\* them was a single-send event), and every later pop with no new event yields
\* absence: no outcome of an earlier event is observable.
C1_LastSendWins ==
    lastOp.op = "pop" => lastOp.result = lastOp.pend

\* A pop after a live single-send event that overwrote a pending outcome of an
\* earlier event with a different one.
C1_Witness ==
    /\ lastOp.op = "pop" /\ prevOp.op = "event" /\ prevOp.live
    /\ prevOp.action = ACTION_SEND
    /\ prevOp.pre # Empty
    /\ prevOp.alone \notin {Return(prevOp.pre.data), RaiseValueError(str(prevOp.pre.error))}
    /\ lastOp.result = prevOp.alone

\* C2: a single-send event whose reference the resolver maps to path p, then
\* pop: pop returns p without raising and the buffer is Empty, from any state
\* of the buffer before the event.
C2_RoundTrip ==
    (/\ lastOp.op = "pop" /\ prevOp.op = "event"
     /\ prevOp.action = ACTION_SEND /\ prevOp.res \in Paths)
    => (lastOp.result = Return(prevOp.res) /\ intent_hander = Empty)

\* The round trip from a Failed buffer.
C2_Witness ==
    /\ lastOp.op = "pop" /\ prevOp.op = "event"
    /\ prevOp.action = ACTION_SEND /\ prevOp.res \in Paths
    /\ Failed(prevOp.pre)
    /\ lastOp.result = Return(prevOp.res)

\* C3: a single-send event with neither a direct reference nor a non-empty clip
\* payload returns normally, the next pop raises ValueError with the fixed
\* text, and a second pop with no new event returns None.
C3_UnrecognisedPayload ==
    /\ (lastOp.op = "event" /\ lastOp.action = ACTION_SEND /\ lastOp.shape = "neither")
       => lastOp.raised = NoExc
    /\ (/\ lastOp.op = "pop" /\ prevOp.op = "event"
        /\ lastOp.action = ACTION_SEND /\ lastOp.shape = "neither")
       => lastOp.result = RaiseValueError(FixedErrorText)
    /\ (/\ lastOp.op = "pop" /\ prevOp.op = "pop"
        /\ lastOp.action = ACTION_SEND /\ lastOp.shape = "neither")
       => lastOp.result = Return(None)

\* The second pop after such an event, the first having raised the fixed text.
C3_Witness ==
    /\ lastOp.op = "pop" /\ prevOp.op = "pop"
    /\ lastOp.action = ACTION_SEND /\ lastOp.shape = "neither"
    /\ prevOp.result = RaiseValueError(FixedErrorText)
    /\ lastOp.result = Return(None)

\* C4: after every completed pop (returned a path, returned None or raised) the
\* buffer is Empty, and a further pop with no event in between returns None.
C4_PopIsDestructive ==
    /\ lastOp.op = "pop" => intent_hander = Empty
    /\ (lastOp.op = "pop" /\ prevOp.op = "pop") => lastOp.result = Return(None)

\* A pop that returned a path, followed by a further pop.
C4_Witness ==
    /\ lastOp.op = "pop" /\ prevOp.op = "pop"
    /\ prevOp.result.kind = "return" /\ prevOp.result.val \in Paths
    /\ intent_hander = Empty

\* C8: an event of kind send-multiple or of any kind other than single-send
\* returns normally, does not call the resolver and leaves both fields as they
\* were, whatever the state before.
C8_OtherKindsAreNoOps ==
    (lastOp.op = "event" /\ lastOp.action # ACTION_SEND)
    => /\ intent_hander = lastOp.pre
       /\ lastOp.arg = NotCalled
       /\ lastOp.raised = NoExc

\* A live send-multiple event delivered to a Failed buffer.
C8_Witness ==
    /\ lastOp.op = "event" /\ lastOp.live
    /\ lastOp.action = ACTION_SEND_MULTIPLE
    /\ Failed(lastOp.pre)
    /\ intent_hander = lastOp.pre

\* C9: on a platform without native sharing, construction leaves the buffer
\* Empty, registers no listener and processes no launch event, and every pop
\* afterwards returns None.
C9_NonNativePlatform ==
    (PLATFORM # "android" /\ ctor # "start")
    => /\ ctor = "done"
       /\ bound = 0
       /\ launched = 0
       /\ intent_hander = Empty
       /\ lastOp.op \in {"none", "pop"}
       /\ lastOp.op = "pop" => lastOp.result = Return(None)

\* Two pops in a row on such a platform.
C9_Witness ==
    /\ PLATFORM # "android"
    /\ lastOp.op = "pop" /\ prevOp.op = "pop"
    /\ lastOp.result = Return(None)

----------------------------------------------------------------------------
(* Claims about pop interleaved with a callback (SpecConc) *)

\* C5: pop is an atomic read-and-clear even when it runs concurrently with an
\* event callback: the outcome a completed single-send event stored is yielded
\* by a pop or overwritten by a later event, never erased by the clearing step
\* of a pop that did not read it.
C5_NoOutcomeErased ==
    erased = None

\* C6: every pop returns a path the resolver produced, returns None, or raises
\* with exactly the fixed text, also when a single-send callback interleaves
\* with it.
C6_PopResults ==
    /\ popResult.kind = "return" => popResult.val \in Paths \cup {None}
    /\ popResult.kind = "raise" => popResult.val = FixedErrorText

\* C7: with callbacks run one at a time and pop interleaving with a running
\* callback at field-access granularity, the pending path and the pending
\* error are never both present.
C7_MutualExclusion ==
    ~(intent_hander.data # None /\ intent_hander.error # None)

\* A pop that found an error pending is between its accesses of the error field
\* while a callback that ran meanwhile has replaced the error by a path.
C7_Witness ==
    /\ pp.pc \in {"194", "195"}
    /\ cb.pc = "idle"
    /\ intent_hander.data \in Paths
    /\ intent_hander.error = None

----------------------------------------------------------------------------
(* SpecPerms: calls of a function wrapped by ensure_storage_perms *)

\* The grant_results the platform hands to the callback of a request for the
\* one permission: granted, denied, or empty when the request was interrupted.
GrantResults == {<<TRUE>>, <<FALSE>>, <<>>}

\* lines 49-65: call i of the wrapped function; checked is what
\* check_permission(WRITE_EXTERNAL_STORAGE) answers.
inner_wrapper(i, checked) ==
    /\ calls[i].st = "new"
    /\ calls' = [calls EXCEPT ![i] =
                    IF PLATFORM = "android"
                    THEN IF checked
                         THEN [@ EXCEPT !.st = "returned", !.func = @ + 1]
                         ELSE [@ EXCEPT !.st = "requested"]
                    ELSE [@ EXCEPT !.st = "returned", !.func = @ + 1]]
    /\ UNCHANGED <<PLATFORM, ctor, intent_hander, bound, launched, unread>>
    /\ UNCHANGED seqVars
    /\ UNCHANGED concVars

\* lines 54-58: the platform delivers the result of the request of call i.
callback(i, grant_results) ==
    /\ calls[i].st = "requested"
    /\ calls' = [calls EXCEPT ![i] =
                    IF Len(grant_results) = 0
                    THEN [@ EXCEPT !.st = "delivered", !.grant = "interrupted",
                                   !.raised = "IndexError"]
                    ELSE IF grant_results[1]
                    THEN [@ EXCEPT !.st = "delivered", !.grant = "granted",
                                   !.func = @ + 1]
                    ELSE [@ EXCEPT !.st = "delivered", !.grant = "denied",
                                   !.fallback = @ + 1]]
    /\ UNCHANGED <<PLATFORM, ctor, intent_hander, bound, launched, unread>>
    /\ UNCHANGED seqVars
    /\ UNCHANGED concVars

NextPerms ==
    \/ \E i \in 1..MaxCalls, checked \in BOOLEAN : inner_wrapper(i, checked)
    \/ \E i \in 1..MaxCalls, grant_results \in GrantResults : callback(i, grant_results)

SpecPerms == Init /\ [][NextPerms]_vars

\* C10: for every call of a wrapped function on android exactly one of func and
\* fallback_func runs, exactly once: func within the call when the permission
\* is already granted; otherwise neither before the permission-result
\* callback, and once it is delivered func if granted and fallback_func if
\* denied.  Off android func runs within the call and fallback_func never.
C10_ExactlyOneInvoked ==
    \A i \in 1..MaxCalls :
        LET c == calls[i]
        IN  /\ c.st \in {"new", "requested"} => (c.func = 0 /\ c.fallback = 0)
            /\ c.st = "returned" => (c.func = 1 /\ c.fallback = 0)
            /\ c.st = "delivered" =>
                  /\ c.func + c.fallback = 1
                  /\ c.grant = "granted" => c.func = 1
                  /\ c.grant = "denied" => c.fallback = 1
            /\ PLATFORM # "android" => c.st \in {"new", "returned"}

----------------------------------------------------------------------------
(* Claims about resolver failures, reference selection and construction (Spec) *)

\* The classes of failure resolve can raise.
ResolverFailures == {"AttributeError", "AssertionError", "OSError"}

\* C11 as stated: every failure raised by resolve during a single-send event,
\* whatever its class, leaves the callback and no pending error is recorded.
C11_ResolverFailuresPropagate ==
    (/\ lastOp.op = "event" /\ lastOp.action = ACTION_SEND
     /\ lastOp.res \in ResolverFailures)
    => (lastOp.raised = lastOp.res /\ intent_hander.error = None)

\* C11, amended: every failure raised by resolve during a single-send event
\* whose class is neither AttributeError nor AssertionError leaves the callback
\* and no pending error is recorded, so a following pop does not raise.
C11_OtherResolverFailuresPropagate ==
    /\ (/\ lastOp.op = "event" /\ lastOp.action = ACTION_SEND
        /\ lastOp.res \in ResolverFailures \ {"AttributeError", "AssertionError"})
       => (lastOp.raised = lastOp.res /\ intent_hander.error = None)
    /\ (/\ lastOp.op = "pop" /\ prevOp.op = "event" /\ prevOp.action = ACTION_SEND
        /\ prevOp.res \in ResolverFailures \ {"AttributeError", "AssertionError"})
       => lastOp.result.kind = "return"

\* A pop after a live single-send event in which resolve raised OSError while an
\* error was pending.
C11_Witness ==
    /\ lastOp.op = "pop" /\ prevOp.op = "event" /\ prevOp.live
    /\ prevOp.action = ACTION_SEND
    /\ prevOp.res = "OSError" /\ prevOp.raised = "OSError"
    /\ Failed(prevOp.pre)
    /\ lastOp.result = Return(None)

\* C12: in a single-send event resolve is called at most once: with exactly
\* the direct data reference when the event carries one, the clip payload not
\* being consulted; with the reference of the first clip item (index 0) when it
\* carries no direct reference but a non-null clip payload with at least one
\* item; not at all when it carries neither.
C12_ReferenceSelection ==
    (lastOp.op = "event" /\ lastOp.action = ACTION_SEND)
    => /\ lastOp.shape = "direct" => (lastOp.arg = lastOp.ref /\ ~lastOp.clip)
       /\ lastOp.shape = "clip" => lastOp.arg = lastOp.ref
       /\ lastOp.shape = "neither" => lastOp.arg = NotCalled
       /\ lastOp.arg \in Uris \cup {NotCalled}

\* A live single-send event with no direct reference and a clip payload whose
\* first item is content://b: the payload was consulted and resolve got that
\* reference.
C12_Witness ==
    /\ lastOp.op = "event" /\ lastOp.live /\ lastOp.action = ACTION_SEND
    /\ lastOp.shape = "clip"
    /\ lastOp.clip
    /\ lastOp.arg = "content://b"
    /\ lastOp.ref = "content://b"
    /\ lastOp.res \in Paths

\* C13: right after the callback for any single-send event (the launching one
\* included) returns normally, the buffer is Ready or Failed, never Empty, for
\* every value the resolver can return.
C13_EventLeavesReadyOrFailed ==
    (lastOp.op = "event" /\ lastOp.action = ACTION_SEND /\ lastOp.raised = NoExc)
    => (Ready(intent_hander) \/ Failed(intent_hander))

\* C14: every construction on android hands the launching event to
\* handle_android_intent exactly once and binds the listener exactly once,
\* whatever the outcome of the launching event, and the launching event is
\* processed before the listener is bound, so before any live event.
C14_LaunchThenBindOnce ==
    PLATFORM = "android"
    => /\ ctor = "start" => (launched = 0 /\ bound = 0)
       /\ ctor = "bind" => (launched = 1 /\ bound = 0)
       /\ ctor \notin {"start", "bind"} => (launched = 1 /\ bound = 1)
       /\ (lastOp.op = "event" /\ lastOp.live) => (launched = 1 /\ bound = 1)

\* C15: a single-send event in which resolve raises a failure the handler does
\* not catch leaves the buffer Empty, whatever was pending before it: neither
\* the earlier path nor the earlier error survives and no error is stored, so
\* the next pop returns None without raising.
C15_FailedEventDiscardsPending ==
    /\ (/\ lastOp.op = "event" /\ lastOp.action = ACTION_SEND
        /\ lastOp.raised # NoExc)
       => intent_hander = Empty
    /\ (/\ lastOp.op = "pop" /\ prevOp.op = "event" /\ prevOp.action = ACTION_SEND
        /\ prevOp.raised # NoExc)
       => lastOp.result = Return(None)

\* A pop after a live single-send event in which resolve raised uncaught while
\* a path was pending.
C15_Witness ==
    /\ lastOp.op = "pop" /\ prevOp.op = "event" /\ prevOp.live
    /\ prevOp.action = ACTION_SEND
    /\ prevOp.raised # NoExc
    /\ Ready(prevOp.pre)
    /\ lastOp.result = Return(None)

====
